---- MODULE Spec2Model ----
(***************************************************************************)
(* Spot-futures arbitrage calculator: the calculation engine               *)
(* (src/src/utils/calculations.ts), the form validation                    *)
(* (utils/validation) and the orchestration hook (hooks/useCalculation).   *)
(*                                                                         *)
(* Decimal values are exact rationals <<n, d>> in lowest terms with d > 0. *)
(* decimal.js works to 28 significant digits; every value of the bounded   *)
(* input sets below is far inside that precision, so "within rounding      *)
(* tolerance" of the program is "equal" here.                              *)
(* Calendar dates 'YYYY-MM-DD' are <<y, m, d>>; the empty string of a date *)
(* field, null and undefined are None.                                     *)
(***************************************************************************)
EXTENDS Integers, Sequences, FiniteSets, TLC

None == <<>>

(***************************************************************************)
(* decimal.js substrate                                                    *)
(***************************************************************************)
Abs(x) == IF x < 0 THEN -x ELSE x

RECURSIVE GCD(_, _)
GCD(a, b) == IF b = 0 THEN a ELSE GCD(b, a % b)

\* new Decimal(n/d): the value in lowest terms
Dec(n, d) ==
    LET s == IF d < 0 THEN -1 ELSE 1
        g == GCD(Abs(n), Abs(d))
    IN  IF n = 0 THEN <<0, 1>> ELSE <<(s * n) \div g, (s * d) \div g>>

D(n) == <<n, 1>>

plus(a, b) ==
    LET g == GCD(a[2], b[2])
        l == (a[2] \div g) * b[2]
    IN  Dec(a[1] * (l \div a[2]) + b[1] * (l \div b[2]), l)

negated(a) == <<-a[1], a[2]>>

minus(a, b) == plus(a, negated(b))

times(a, b) ==
    LET g1 == GCD(Abs(a[1]), b[2])
        g2 == GCD(Abs(b[1]), a[2])
    IN  IF a[1] = 0 \/ b[1] = 0 THEN <<0, 1>>
        ELSE <<(a[1] \div g1) * (b[1] \div g2), (a[2] \div g2) * (b[2] \div g1)>>

\* b is never zero where the program divides (prices, amounts, 100, 365, days)
dividedBy(a, b) ==
    IF b[1] < 0 THEN times(a, <<-b[2], -b[1]>>) ELSE times(a, <<b[2], b[1]>>)

absD(a) == <<Abs(a[1]), a[2]>>

cmp(a, b) ==
    LET g == GCD(a[2], b[2])
        x == a[1] * (b[2] \div g)
        y == b[1] * (a[2] \div g)
    IN  IF x < y THEN -1 ELSE IF x > y THEN 1 ELSE 0

gt(a, b) == cmp(a, b) = 1
lt(a, b) == cmp(a, b) = -1
gte(a, b) == cmp(a, b) >= 0
lte(a, b) == cmp(a, b) <= 0

(***************************************************************************)
(* dayjs substrate: parsing 'YYYY-MM-DD', diff(.., 'day'), subtract a day  *)
(***************************************************************************)
IsLeap(y) == (y % 4 = 0 /\ y % 100 # 0) \/ y % 400 = 0

DaysInMonth(y, m) ==
    IF m = 2 THEN (IF IsLeap(y) THEN 29 ELSE 28)
    ELSE IF m \in {4, 6, 9, 11} THEN 30 ELSE 31

RECURSIVE DaysBeforeMonth(_, _)
DaysBeforeMonth(y, m) ==
    IF m = 1 THEN 0 ELSE DaysBeforeMonth(y, m - 1) + DaysInMonth(y, m - 1)

DaysBeforeYear(y) ==
    365 * (y - 1) + ((y - 1) \div 4) - ((y - 1) \div 100) + ((y - 1) \div 400)

\* dayjs(date): the day count of a calendar date
DayNumber(date) ==
    DaysBeforeYear(date[1]) + DaysBeforeMonth(date[1], date[2]) + date[3]

\* dayjs(a).diff(dayjs(b), 'day') for date-only values
DiffDays(a, b) == DayNumber(a) - DayNumber(b)

\* dayjs(a).isAfter(dayjs(b))
IsAfter(a, b) == DayNumber(a) > DayNumber(b)

\* dayjs(date).subtract(1, 'day').format('YYYY-MM-DD')
SubtractDay(date) ==
    IF date[3] > 1 THEN <<date[1], date[2], date[3] - 1>>
    ELSE IF date[2] > 1
         THEN <<date[1], date[2] - 1, DaysInMonth(date[1], date[2] - 1)>>
         ELSE <<date[1] - 1, 12, 31>>

(***************************************************************************)
(* Messages.  A message is <<subject, what>>; two messages are equal here  *)
(* exactly when the program's strings are equal.                           *)
(*   FieldMsg(field, rule) = getFieldErrorMessage(field, rule)             *)
(*   <<"dates", "notAfter">>     '交割日期必须晚于当前日期'                *)
(*   <<"dates", "over365">>      '持有期不能超过365天'                     *)
(*   <<"dates", "under1">>       '持有期至少为1天'                         *)
(*   <<"prices", "gapOver50">>   '期货与现货价格差异过大（超过50%），...'   *)
(*   <<"rates", "costTooHigh">>  '总成本率（利率 + 双边手续费）过高，...'   *)
(*   <<"futurePrice", "notPositive">>  '期货价格必须为正数'                *)
(*   <<"spotPrice", "notPositive">>    '现货价格必须为正数'                *)
(*   <<"currentDate", "select">>       '请选择当前日期'                    *)
(*   <<"maturityDate", "select">>      '请选择交割日期'                    *)
(*   <<"annualInterestRate", "over50">>  '年化利率不能超过50%'             *)
(*   <<"transactionFeeRate", "over10">>  '交易手续费率不能超过10%'         *)
(*   <<"form", "fillRequired">>  '请填写所有必填字段'                      *)
(* '年化利率不能为负数' and '交易手续费率不能为负数' of validateInput are  *)
(* the strings getFieldErrorMessage builds for the rule nonNegative.       *)
(***************************************************************************)
FieldMsg(field, rule) == <<field, rule>>

NotAfterMsg == <<"dates", "notAfter">>

Over365Msg == <<"dates", "over365">>

Under1Msg == <<"dates", "under1">>

GapOver50Msg == <<"prices", "gapOver50">>

\* errors.push(m) under a condition
Msg(cond, m) == IF cond THEN <<m>> ELSE <<>>

(***************************************************************************)
(* calculateArbitrageReturn                                                *)
(***************************************************************************)
\* maturity.diff(current, 'day')
HoldingDays(input) == DiffDays(input.maturityDate, input.currentDate)

\* mutant: the upper limit taken as >= 365
HoldingPeriodError_From365(h) ==
    IF h <= 0 THEN NotAfterMsg
    ELSE IF h >= 365 THEN Over365Msg
    ELSE None

\* the two throws of the calculator; None when it goes on
HoldingPeriodError(h) ==
    IF h <= 0 THEN NotAfterMsg
    ELSE IF h > 365 THEN Over365Msg
    ELSE None

spotQuantity(input) == dividedBy(input.investmentAmount, input.spotPrice)

priceDifferencePerUnit(input) == minus(input.futurePrice, input.spotPrice)

totalPriceDifference(input) ==
    times(priceDifferencePerUnit(input), spotQuantity(input))

holdingCostRate(input, h) ==
    dividedBy(times(dividedBy(input.annualInterestRate, D(100)), D(h)), D(365))

\* mutant: interest charged on the leveraged position
holdingCost_OnContractValue(input, h) ==
    times(IF input.leverageRatio # None
          THEN times(input.investmentAmount, input.leverageRatio)
          ELSE input.investmentAmount,
          holdingCostRate(input, h))

holdingCost(input, h) == times(input.investmentAmount, holdingCostRate(input, h))

totalTransactionFeeRate(input) ==
    times(dividedBy(input.transactionFeeRate, D(100)), D(2))

\* mutant: the fee charged on one leg only
transactionCost_OneLeg(input) ==
    times(input.investmentAmount, dividedBy(input.transactionFeeRate, D(100)))

\* mutant: a flat fee of 1 on top of the proportional one
transactionCost_FlatFee(input) ==
    plus(times(input.investmentAmount, totalTransactionFeeRate(input)), D(1))

transactionCost(input) ==
    times(input.investmentAmount, totalTransactionFeeRate(input))

\* rate ? investmentAmount.times(rate.dividedBy(100)) : new Decimal(0)
\* (a Decimal object is truthy whatever its value)
lossAmount(input, rate) ==
    IF rate # None
    THEN times(input.investmentAmount, dividedBy(rate, D(100)))
    ELSE D(0)

depositLoss(input) == lossAmount(input, input.depositLossRate)

withdrawalLoss(input) == lossAmount(input, input.withdrawalLossRate)

\* gross.minus(holdingCost).minus(transactionCost).minus(depositLoss).minus(withdrawalLoss)
netOfCosts(gross, input, h) ==
    minus(minus(minus(minus(gross, holdingCost(input, h)),
                      transactionCost(input)),
                depositLoss(input)),
          withdrawalLoss(input))

netProfit(input, h) == netOfCosts(totalPriceDifference(input), input, h)

\* mutant: a 360-day year
annualizedReturnOf_Year360(netProfitRate, h) ==
    times(dividedBy(times(netProfitRate, D(360)), D(h)), D(100))

\* netProfitRate, annualizedReturn, totalReturn, actualProfit, annualizedProfit
\* from a net profit (lines 67-71, and again 99-103 for the leveraged profit)
annualizedReturnOf(netProfitRate, h) ==
    times(dividedBy(times(netProfitRate, D(365)), D(h)), D(100))

annualizedProfitOf(input, annualizedReturn) ==
    times(input.investmentAmount, dividedBy(annualizedReturn, D(100)))

returnsFromRate(profit, netProfitRate, input, h) ==
    [ annualizedReturn |-> annualizedReturnOf(netProfitRate, h),
      totalReturn      |-> times(netProfitRate, D(100)),
      actualProfit     |-> profit,
      annualizedProfit |->
          annualizedProfitOf(input, annualizedReturnOf(netProfitRate, h)) ]

returnsOf(profit, input, h) ==
    returnsFromRate(profit, dividedBy(profit, input.investmentAmount), input, h)

\* leverageRatio && leverageRatio.gt(0)
hasLeverage(input) ==
    input.leverageRatio # None /\ gt(input.leverageRatio, D(0))

leveragedValue(input) == times(input.investmentAmount, input.leverageRatio)

\* mutant: the quantity bought with the margin alone
leveragedSpotQuantity_MarginOnly(input) ==
    dividedBy(input.investmentAmount, input.spotPrice)

leveragedSpotQuantity(input) == dividedBy(leveragedValue(input), input.spotPrice)

\* mutant: the whole unleveraged net profit, costs included, scaled by leverage
leveragedNetProfit_CostsScaled(input, h) ==
    times(netProfit(input, h), input.leverageRatio)

leveragedNetProfit(input, h) ==
    netOfCosts(times(priceDifferencePerUnit(input), leveragedSpotQuantity(input)),
               input, h)

\* mutant: the margin taken off the futures price
liquidationPrice_FromFuture(input) ==
    minus(input.futurePrice,
          dividedBy(input.investmentAmount, leveragedSpotQuantity(input)))

liquidationPrice(input) ==
    minus(input.spotPrice,
          dividedBy(input.investmentAmount, leveragedSpotQuantity(input)))

NoLeverage == [present |-> FALSE]

leverageOf(input, h) ==
    IF hasLeverage(input)
    THEN [ present          |-> TRUE,
           leverageRatio    |-> input.leverageRatio,
           marginRequired   |-> input.investmentAmount,
           contractValue    |-> leveragedValue(input),
           liquidationPrice |-> liquidationPrice(input),
           leveragedProfit  |-> leveragedNetProfit(input, h) ]
    ELSE NoLeverage

\* mutant: leverage of exactly 1 already counted as leveraged
riskLevelOf_LeverageFrom1(input, annualizedReturn, h) ==
    LET absReturn == absD(annualizedReturn)
    IN  IF input.leverageRatio # None /\ gte(input.leverageRatio, D(1)) THEN "HIGH"
        ELSE IF lt(absReturn, D(5)) \/ h > 180 THEN "LOW"
        ELSE IF lt(absReturn, D(15)) \/ h > 90 THEN "MEDIUM"
        ELSE "HIGH"

\* the if / else-if chain on Math.abs(annualizedReturn.toNumber())
riskLevelOf(input, annualizedReturn, h) ==
    LET absReturn == absD(annualizedReturn)
    IN  IF input.leverageRatio # None /\ gt(input.leverageRatio, D(1)) THEN "HIGH"
        ELSE IF lt(absReturn, D(5)) \/ h > 180 THEN "LOW"
        ELSE IF lt(absReturn, D(15)) \/ h > 90 THEN "MEDIUM"
        ELSE "HIGH"

\* mutant: the breakdown's priceDifference taken from the leveraged position
breakdownOf_Leveraged(input, h) ==
    LET keys == {"priceDifference", "holdingCost", "transactionCost"}
                \cup (IF gt(depositLoss(input), D(0)) THEN {"depositLoss"} ELSE {})
                \cup (IF gt(withdrawalLoss(input), D(0)) THEN {"withdrawalLoss"} ELSE {})
    IN  [ k \in keys |->
            CASE k = "priceDifference" ->
                     IF hasLeverage(input)
                     THEN times(priceDifferencePerUnit(input),
                                leveragedSpotQuantity(input))
                     ELSE totalPriceDifference(input)
              [] k = "holdingCost"     -> holdingCost(input, h)
              [] k = "transactionCost" -> transactionCost(input)
              [] k = "depositLoss"     -> depositLoss(input)
              [] k = "withdrawalLoss"  -> withdrawalLoss(input) ]

\* the breakdown object: depositLoss / withdrawalLoss are spread in only when > 0
breakdownOf(input, h) ==
    LET keys == {"priceDifference", "holdingCost", "transactionCost"}
                \cup (IF gt(depositLoss(input), D(0)) THEN {"depositLoss"} ELSE {})
                \cup (IF gt(withdrawalLoss(input), D(0)) THEN {"withdrawalLoss"} ELSE {})
    IN  [ k \in keys |->
            CASE k = "priceDifference" -> totalPriceDifference(input)
              [] k = "holdingCost"     -> holdingCost(input, h)
              [] k = "transactionCost" -> transactionCost(input)
              [] k = "depositLoss"     -> depositLoss(input)
              [] k = "withdrawalLoss"  -> withdrawalLoss(input) ]

\* the profit the returned figures are computed from
profitOf(input, h) ==
    IF hasLeverage(input) THEN leveragedNetProfit(input, h) ELSE netProfit(input, h)

\* the result object, r being the figures of returnsOf
resultObject(input, h, r) ==
    [ ok               |-> TRUE,
      annualizedReturn |-> r.annualizedReturn,
      holdingDays      |-> h,
      totalReturn      |-> r.totalReturn,
      actualProfit     |-> r.actualProfit,
      annualizedProfit |-> r.annualizedProfit,
      riskLevel        |-> riskLevelOf(input, r.annualizedReturn, h),
      breakdown        |-> breakdownOf(input, h),
      leverage         |-> leverageOf(input, h) ]

\* the function from its holding-period check on, h being holdingDays
calculateFor(input, h) ==
    IF HoldingPeriodError(h) # None
    THEN [ ok |-> FALSE, error |-> HoldingPeriodError(h) ]
    ELSE resultObject(input, h, returnsOf(profitOf(input, h), input, h))

calculateArbitrageReturn(input) == calculateFor(input, HoldingDays(input))

(***************************************************************************)
(* calculateBreakEven, calculateSensitivity, getMarketCondition            *)
(***************************************************************************)
\* mutant: the fee counted for one leg only
calculateBreakEven_OneLeg(input) ==
    LET h == DiffDays(input.maturityDate, input.currentDate)
        hcr == dividedBy(times(dividedBy(input.annualInterestRate, D(100)), D(h)),
                         D(365))
        fee == dividedBy(input.transactionFeeRate, D(100))
        factor == plus(plus(D(1), hcr), fee)
    IN  [ breakEvenFuturePrice |-> times(input.spotPrice, factor),
          breakEvenSpotPrice   |-> dividedBy(input.spotPrice, factor) ]

calculateBreakEven(input) ==
    LET h == DiffDays(input.maturityDate, input.currentDate)
        hcr == dividedBy(times(dividedBy(input.annualInterestRate, D(100)), D(h)),
                         D(365))
        fee == times(dividedBy(input.transactionFeeRate, D(100)), D(2))
        factor == plus(plus(D(1), hcr), fee)
    IN  [ breakEvenFuturePrice |-> times(input.spotPrice, factor),
          breakEvenSpotPrice   |-> dividedBy(input.spotPrice, factor) ]

\* the three perturbed inputs of the sensitivity analysis
interestPerturbed(input) ==
    [input EXCEPT !.annualInterestRate = plus(@, D(1))]

\* mutant: the time perturbation applied on top of the interest perturbation
timePerturbed_Chained(input) ==
    [interestPerturbed(input) EXCEPT !.maturityDate = SubtractDay(@)]

timePerturbed(input) == [input EXCEPT !.maturityDate = SubtractDay(@)]

pricePerturbed(input) == [input EXCEPT !.spotPrice = times(@, Dec(101, 100))]

\* any of the four calculateArbitrageReturn calls may throw; the first throw
\* leaves calculateSensitivity
sensitivityFrom(base, interest, time, price) ==
    IF ~base.ok THEN [ ok |-> FALSE, error |-> base.error ]
    ELSE IF ~interest.ok THEN [ ok |-> FALSE, error |-> interest.error ]
    ELSE IF ~time.ok THEN [ ok |-> FALSE, error |-> time.error ]
    ELSE IF ~price.ok THEN [ ok |-> FALSE, error |-> price.error ]
    ELSE [ ok |-> TRUE,
           interestRateSensitivity |->
               minus(interest.annualizedReturn, base.annualizedReturn),
           timeSensitivity |->
               minus(time.annualizedReturn, base.annualizedReturn),
           priceSensitivity |->
               minus(price.annualizedReturn, base.annualizedReturn) ]

calculateSensitivity(input) ==
    sensitivityFrom(calculateArbitrageReturn(input),
                    calculateArbitrageReturn(interestPerturbed(input)),
                    calculateArbitrageReturn(timePerturbed(input)),
                    calculateArbitrageReturn(pricePerturbed(input)))

\* mutant: the boundaries taken as inclusive
conditionOf_Inclusive(premiumPercent) ==
    IF gte(premiumPercent, Dec(1, 2)) THEN "CONTANGO"
    ELSE IF lte(premiumPercent, Dec(-1, 2)) THEN "BACKWARDATION"
    ELSE "NEUTRAL"

conditionOf(premiumPercent) ==
    IF gt(premiumPercent, Dec(1, 2)) THEN "CONTANGO"
    ELSE IF lt(premiumPercent, Dec(-1, 2)) THEN "BACKWARDATION"
    ELSE "NEUTRAL"

getMarketCondition(futurePrice, spotPrice) ==
    LET premium == minus(futurePrice, spotPrice)
        premiumPercent == times(dividedBy(premium, spotPrice), D(100))
    IN  [ condition      |-> conditionOf(premiumPercent),
          premium        |-> premium,
          premiumPercent |-> premiumPercent ]

(***************************************************************************)
(* validateInput                                                           *)
(***************************************************************************)
inputDateErrors(input) ==
    IF input.currentDate # None /\ input.maturityDate # None
    THEN LET diffDays == DiffDays(input.maturityDate, input.currentDate)
         IN  Msg(diffDays <= 0, NotAfterMsg)
             \o Msg(diffDays > 365, Over365Msg)
             \o Msg(diffDays < 1, Under1Msg)
    ELSE <<>>

inputPriceGapErrors(input) ==
    IF input.futurePrice # None /\ input.spotPrice # None
    THEN Msg(gt(absD(times(dividedBy(minus(input.futurePrice, input.spotPrice),
                                     input.spotPrice), D(100))), D(50)),
             GapOver50Msg)
    ELSE <<>>

\* the errors in the order the function pushes them
validateInput(input) ==
    Msg(input.futurePrice = None \/ lte(input.futurePrice, D(0)),
        <<"futurePrice", "notPositive">>)
    \o Msg(input.spotPrice = None \/ lte(input.spotPrice, D(0)),
           <<"spotPrice", "notPositive">>)
    \o Msg(input.currentDate = None, <<"currentDate", "select">>)
    \o Msg(input.maturityDate = None, <<"maturityDate", "select">>)
    \o inputDateErrors(input)
    \o Msg(input.annualInterestRate = None \/ lt(input.annualInterestRate, D(0)),
           FieldMsg("annualInterestRate", "nonNegative"))
    \o Msg(input.annualInterestRate # None /\ gt(input.annualInterestRate, D(50)),
           <<"annualInterestRate", "over50">>)
    \o Msg(input.transactionFeeRate = None \/ lt(input.transactionFeeRate, D(0)),
           FieldMsg("transactionFeeRate", "nonNegative"))
    \o Msg(input.transactionFeeRate # None /\ gt(input.transactionFeeRate, D(10)),
           <<"transactionFeeRate", "over10">>)
    \o inputPriceGapErrors(input)

(***************************************************************************)
(* The form.  The text of a numeric field is None ('') or <<m, k>>, the    *)
(* decimal text of m / 10^k ("3.5" is <<35, 1>>); a date field is None     *)
(* ('') or the date the picker formatted as 'YYYY-MM-DD'.                  *)
(***************************************************************************)
RECURSIVE Pow10(_)
Pow10(k) == IF k = 0 THEN 1 ELSE 10 * Pow10(k - 1)

\* parseFloat(text): NaN (None) for ''
parseFloat(text) == IF text = None THEN None ELSE Dec(text[1], Pow10(text[2]))

\* utils/formatters parseDecimal(text): null for '', else new Decimal(text)
parseDecimal(text) == IF text = None THEN None ELSE Dec(text[1], Pow10(text[2]))

RequiredFields ==
    << "investmentAmount", "futurePrice", "spotPrice", "currentDate",
       "maturityDate", "annualInterestRate", "transactionFeeRate" >>

BooleanFields == { "enableDepositWithdrawalLoss", "enableLeverage" }

EmptyForm ==
    [ investmentAmount            |-> None,
      futurePrice                 |-> None,
      spotPrice                   |-> None,
      currentDate                 |-> None,
      maturityDate                |-> None,
      annualInterestRate          |-> None,
      transactionFeeRate          |-> None,
      enableDepositWithdrawalLoss |-> FALSE,
      enableLeverage              |-> FALSE,
      depositLossRate             |-> None,
      withdrawalLossRate          |-> None,
      leverageRatio               |-> None ]

\* new Date(): the day the page is open
Today == <<2024, 1, 1>>

\* maturity.setMonth(maturity.getMonth() + 3), a day past the month's end
\* rolling over into the next month
ThreeMonthsLater(date) ==
    LET m0 == date[2] + 3
        y  == IF m0 > 12 THEN date[1] + 1 ELSE date[1]
        m  == IF m0 > 12 THEN m0 - 12 ELSE m0
    IN  IF date[3] <= DaysInMonth(y, m) THEN <<y, m, date[3]>>
        ELSE IF m = 12 THEN <<y + 1, 1, date[3] - DaysInMonth(y, m)>>
        ELSE <<y, m + 1, date[3] - DaysInMonth(y, m)>>

ExampleForm ==
    [ investmentAmount            |-> <<100000, 0>>,
      futurePrice                 |-> <<3050, 0>>,
      spotPrice                   |-> <<3000, 0>>,
      currentDate                 |-> Today,
      maturityDate                |-> ThreeMonthsLater(Today),
      annualInterestRate          |-> <<35, 1>>,
      transactionFeeRate          |-> <<5, 2>>,
      enableDepositWithdrawalLoss |-> TRUE,
      enableLeverage              |-> TRUE,
      depositLossRate             |-> <<1, 1>>,
      withdrawalLossRate          |-> <<1, 1>>,
      leverageRatio               |-> <<3, 0>> ]

\* parseDecimal(text) || undefined, for an option that is switched on and filled
optionalDecimal(enabled, text) ==
    IF enabled /\ text # None THEN parseDecimal(text) ELSE None

\* useMemo calculationInput: null (None) unless every required field is there
calculationInputOf(form) ==
    IF \E i \in 1..Len(RequiredFields) : form[RequiredFields[i]] = None
    THEN None
    ELSE [ investmentAmount   |-> parseDecimal(form.investmentAmount),
           futurePrice        |-> parseDecimal(form.futurePrice),
           spotPrice          |-> parseDecimal(form.spotPrice),
           currentDate        |-> form.currentDate,
           maturityDate       |-> form.maturityDate,
           annualInterestRate |-> parseDecimal(form.annualInterestRate),
           transactionFeeRate |-> parseDecimal(form.transactionFeeRate),
           depositLossRate    |->
               optionalDecimal(form.enableDepositWithdrawalLoss, form.depositLossRate),
           withdrawalLossRate |->
               optionalDecimal(form.enableDepositWithdrawalLoss, form.withdrawalLossRate),
           leverageRatio      |->
               optionalDecimal(form.enableLeverage, form.leverageRatio) ]

(***************************************************************************)
(* utils/validation                                                        *)
(***************************************************************************)
\* every text of a numeric field is '' or the text of a finite number
isValidNumber(value) == value # None

\* the rule's message when the rule is violated, else nothing
validateSingleRule(field, value, rule) ==
    LET num == parseFloat(value)
        bad(outOfRange) == value # None /\ (~isValidNumber(value) \/ outOfRange)
    IN  CASE rule = "required" -> Msg(value = None, FieldMsg(field, rule))
          [] rule = "positive" ->
                 Msg(bad(lte(num, D(0))), FieldMsg(field, rule))
          [] rule = "nonNegative" ->
                 Msg(bad(lt(num, D(0))), FieldMsg(field, rule))
          [] rule = "percentage" ->
                 Msg(bad(lt(num, D(0)) \/ gt(num, D(100))), FieldMsg(field, rule))
          [] rule = "validPrice" ->
                 Msg(bad(lte(num, D(0)) \/ gt(num, D(1000000))), FieldMsg(field, rule))
          [] rule = "validDate" -> <<>>  \* a picked date is a valid date
          [] rule = "validRate" ->
                 Msg(bad(lt(num, D(0)) \/ gt(num, D(50))), FieldMsg(field, rule))

RECURSIVE validateField(_, _, _)
validateField(field, value, rules) ==
    IF rules = <<>> THEN <<>>
    ELSE validateSingleRule(field, value, Head(rules))
         \o validateField(field, value, Tail(rules))

\* value && parseFloat(value) <compared with a limit>
Over(value, limit) == value # None /\ gt(parseFloat(value), D(limit))

Under(value, limit) == value # None /\ lt(parseFloat(value), D(limit))

\* the switch on the field, for the required fields and the optional ones
validateFieldRealTime(field, value) ==
    CASE field = "investmentAmount" ->
           [ errors   |-> validateField(field, value, <<"positive", "validPrice">>),
             warnings |-> IF Under(value, 1000) THEN <<FieldMsg(field, "low")>>
                          ELSE Msg(Over(value, 10000000), FieldMsg(field, "high")) ]
      [] field \in {"futurePrice", "spotPrice"} ->
           [ errors   |-> validateField(field, value, <<"positive", "validPrice">>),
             warnings |-> Msg(Over(value, 100000), FieldMsg(field, "high")) ]
      [] field = "annualInterestRate" ->
           [ errors   |-> validateField(field, value, <<"nonNegative", "validRate">>),
             warnings |-> Msg(Over(value, 10), FieldMsg(field, "high")) ]
      [] field = "transactionFeeRate" ->
           [ errors   |-> validateField(field, value, <<"nonNegative", "percentage">>),
             warnings |-> Msg(Over(value, 1), FieldMsg(field, "high")) ]
      [] field = "currentDate" ->
           [ errors   |-> validateField(field, value, <<"validDate">>),
             warnings |-> <<>> ]
      [] field = "maturityDate" ->
           [ errors   |-> validateField(field, value, <<"validDate">>),
             warnings |-> Msg(value # None /\ DiffDays(value, Today) > 180,
                              FieldMsg(field, "long")) ]
      [] field \in {"depositLossRate", "withdrawalLossRate"} ->
           IF value # None
           THEN [ errors   |-> validateField(field, value,
                                             <<"nonNegative", "percentage">>),
                  warnings |-> Msg(Over(value, 5), FieldMsg(field, "high")) ]
           ELSE [ errors |-> <<>>, warnings |-> <<>> ]
      [] field = "leverageRatio" ->
           IF value = None THEN [ errors |-> <<>>, warnings |-> <<>> ]
           ELSE IF lte(parseFloat(value), D(0))
           THEN [ errors |-> <<FieldMsg(field, "positive")>>, warnings |-> <<>> ]
           ELSE IF Over(value, 100)
           THEN [ errors |-> <<FieldMsg(field, "over100")>>, warnings |-> <<>> ]
           ELSE IF Over(value, 10)
           THEN [ errors |-> <<>>, warnings |-> <<FieldMsg(field, "veryHigh")>> ]
           ELSE [ errors |-> <<>>,
                  warnings |-> Msg(Over(value, 5), FieldMsg(field, "high")) ]

\* mutant: only the upper limit of the holding period checked
relationshipDateErrors_UpperOnly(form) ==
    IF form.currentDate # None /\ form.maturityDate # None
    THEN Msg(DiffDays(form.maturityDate, form.currentDate) > 365, Over365Msg)
    ELSE <<>>

relationshipDateErrors(form) ==
    IF form.currentDate # None /\ form.maturityDate # None
    THEN LET diffDays == DiffDays(form.maturityDate, form.currentDate)
         IN  Msg(~IsAfter(form.maturityDate, form.currentDate), NotAfterMsg)
             \o Msg(diffDays > 365, Over365Msg)
             \o Msg(diffDays < 1, Under1Msg)
    ELSE <<>>

\* Math.abs((futurePrice - spotPrice) / spotPrice * 100) > 50 on floats: with
\* spotPrice 0 the quotient is an infinity, or NaN when futurePrice is 0 too
relationshipPriceErrors(form) ==
    IF form.futurePrice # None /\ form.spotPrice # None
    THEN LET f == parseFloat(form.futurePrice)
             sp == parseFloat(form.spotPrice)
         IN  IF sp = D(0) THEN Msg(f # D(0), GapOver50Msg)
             ELSE Msg(gt(absD(times(dividedBy(minus(f, sp), sp), D(100))), D(50)),
                      GapOver50Msg)
    ELSE <<>>

relationshipRateErrors(form) ==
    IF form.annualInterestRate # None /\ form.transactionFeeRate # None
    THEN Msg(gt(plus(parseFloat(form.annualInterestRate),
                     times(parseFloat(form.transactionFeeRate), D(2))), D(30)),
             <<"rates", "costTooHigh">>)
    ELSE <<>>

validateFormRelationships(form) ==
    relationshipDateErrors(form)
    \o relationshipPriceErrors(form)
    \o relationshipRateErrors(form)

\* [...new Set(list)]: the first occurrence of each message, in order
RECURSIVE Dedup(_)
Dedup(list) ==
    IF list = <<>> THEN <<>>
    ELSE LET front == Dedup(SubSeq(list, 1, Len(list) - 1))
             last  == list[Len(list)]
         IN  IF \E i \in 1..Len(front) : front[i] = last
             THEN front ELSE Append(front, last)

RECURSIVE requiredErrors(_, _)
requiredErrors(form, fields) ==
    IF fields = <<>> THEN <<>>
    ELSE Msg(form[Head(fields)] = None, FieldMsg(Head(fields), "required"))
         \o requiredErrors(form, Tail(fields))

RECURSIVE fieldResults(_, _, _)
fieldResults(form, fields, part) ==
    IF fields = <<>> THEN <<>>
    ELSE (IF form[Head(fields)] # None
          THEN validateFieldRealTime(Head(fields), form[Head(fields)])[part]
          ELSE <<>>)
         \o fieldResults(form, Tail(fields), part)

\* mutant: a warning makes the form invalid
validationOf_WarningsBlock(errorList, warningList) ==
    [ isValid  |-> errorList = <<>> /\ warningList = <<>>,
      errors   |-> Dedup(errorList),
      warnings |-> Dedup(warningList) ]

validationOf(errorList, warningList) ==
    [ isValid  |-> errorList = <<>>,
      errors   |-> Dedup(errorList),
      warnings |-> Dedup(warningList) ]

\* mutant: the field and relationship checks skipped once a required field is
\* missing
validateCompleteForm_StopAtRequired(form) ==
    IF requiredErrors(form, RequiredFields) # <<>>
    THEN validationOf(requiredErrors(form, RequiredFields), <<>>)
    ELSE validationOf(fieldResults(form, RequiredFields, "errors")
                          \o validateFormRelationships(form),
                      fieldResults(form, RequiredFields, "warnings"))

validateCompleteForm(form) ==
    validationOf(requiredErrors(form, RequiredFields)
                     \o fieldResults(form, RequiredFields, "errors")
                     \o validateFormRelationships(form),
                 fieldResults(form, RequiredFields, "warnings"))

(***************************************************************************)
(* State                                                                   *)
(***************************************************************************)
VARIABLES
    input,      \* the CalculationInput handed to the engine
    out,        \* what the engine's entry point returned for it
    \* useCalculation
    formData,
    result,
    analysisResult,
    errors,
    warnings,
    loading,
    hasCalculatedOnce,
    lastCalculationInputRef,
    autoTimer,        \* the pending 500 ms timer of the auto-calculate effect:
                      \* the calculationInput its calculate() closes over, or None
    inFlight,         \* the inputs of the calculate() calls in their 150 ms delay
    debouncePending,  \* the 300 ms timer of the current debouncedValidation
    debounceStale,    \* forms held by timers of replaced debouncedValidation
                      \* functions that were created with hasCalculatedOnce true
    \* one function returned by debounce(func, wait)
    wait,             \* its wait argument, in clock ticks
    timeout,          \* its closure variable: the id of the timer it set last
                      \* (positive), 0 for null
    timers,           \* the timers set and neither run nor cleared
    now,              \* the clock
    calls,            \* the calls of the returned function so far
    invoked           \* the invocations of func so far

engineVars == <<input, out>>

hookVars ==
    << formData, result, analysisResult, errors, warnings, loading,
       hasCalculatedOnce, lastCalculationInputRef, autoTimer, inFlight,
       debouncePending, debounceStale >>

debounceVars == <<wait, timeout, timers, now, calls, invoked>>

vars == <<engineVars, hookVars, debounceVars>>

\* no debounced function under observation
DebounceUnused ==
    /\ wait = 0
    /\ timeout = 0
    /\ timers = {}
    /\ now = 0
    /\ calls = <<>>
    /\ invoked = <<>>

\* the state after the hook's first render and its effects: every value of the
\* empty form except the two switches is '', the switches are false and so not
\* '', and the validation effect has called debouncedValidation once
HookInit ==
    /\ formData = EmptyForm
    /\ result = None
    /\ analysisResult = None
    /\ errors = <<>>
    /\ warnings = <<>>
    /\ loading = FALSE
    /\ hasCalculatedOnce = FALSE
    /\ lastCalculationInputRef = None
    /\ autoTimer = None
    /\ inFlight = {}
    /\ debouncePending = TRUE
    /\ debounceStale = {}

(***************************************************************************)
(* The engine's entry points applied to bounded inputs                     *)
(***************************************************************************)
MaxTick == 2

MaxLeverage == 2

SpotPrices == {D(200), D(3000)}

\* futures prices around a spot price, in steps of half a percent of it
FuturePricesFor(s) == { times(s, Dec(200 + k, 200)) : k \in (-MaxTick)..MaxTick }

\* <<currentDate, maturityDate, the days from the first to the second>>, the
\* day counts taken from the calendar: across a leap day, across a year's end
DatePairs ==
    { <<<<2024, 1, 1>>, <<2023, 12, 31>>, -1>>, <<<<2024, 1, 1>>, <<2024, 1, 1>>, 0>>,
      <<<<2024, 1, 1>>, <<2024, 1, 2>>, 1>>,    <<<<2024, 1, 1>>, <<2024, 1, 31>>, 30>>,
      <<<<2024, 1, 1>>, <<2024, 4, 1>>, 91>>,   <<<<2024, 1, 1>>, <<2024, 7, 1>>, 182>>,
      <<<<2024, 1, 1>>, <<2024, 12, 31>>, 365>>,
      <<<<2024, 1, 1>>, <<2025, 1, 1>>, 366>>,
      <<<<2024, 2, 29>>, <<2024, 3, 1>>, 1>>,
      <<<<2023, 2, 28>>, <<2024, 2, 28>>, 365>> }

CalendarDays(i) ==
    (CHOOSE d \in DatePairs : d[1] = i.currentDate /\ d[2] = i.maturityDate)[3]

\* <<annualInterestRate, transactionFeeRate>>
RatePairs == { <<D(0), D(0)>>, <<Dec(7, 2), Dec(1, 20)>> }

Amounts == { D(1000), D(100000) }

\* <<depositLossRate, withdrawalLossRate>>
LossPairs == { <<None, None>>, <<D(0), Dec(1, 5)>>, <<Dec(1, 10), Dec(1, 5)>> }

Leverages == { None, D(0), Dec(1, 2) } \cup { D(k) : k \in 1..MaxLeverage }

Inputs ==
    { [ futurePrice        |-> f,
        spotPrice          |-> s,
        currentDate        |-> d[1],
        maturityDate       |-> d[2],
        annualInterestRate |-> r[1],
        transactionFeeRate |-> r[2],
        investmentAmount   |-> a,
        depositLossRate    |-> l[1],
        withdrawalLossRate |-> l[2],
        leverageRatio      |-> v ] :
      s \in SpotPrices, f \in UNION { FuturePricesFor(p) : p \in SpotPrices },
      d \in DatePairs, r \in RatePairs, a \in Amounts,
      l \in LossPairs, v \in Leverages }

NoOutput == [ op |-> "none" ]

\* the spec's example scenario 2: the example amounts with leverage 3
Scenario2Input ==
    [ futurePrice        |-> D(3050),
      spotPrice          |-> D(3000),
      currentDate        |-> <<2024, 1, 1>>,
      maturityDate       |-> <<2024, 4, 1>>,
      annualInterestRate |-> Dec(35, 10),
      transactionFeeRate |-> Dec(5, 100),
      investmentAmount   |-> D(100000),
      depositLossRate    |-> None,
      withdrawalLossRate |-> None,
      leverageRatio      |-> D(3) ]

CalcInit ==
    /\ input \in { i \in Inputs : i.futurePrice \in FuturePricesFor(i.spotPrice) }
                 \cup { Scenario2Input }
    /\ out = NoOutput
    /\ HookInit
    /\ DebounceUnused

Calculate ==
    /\ out = NoOutput
    /\ out' = [ op |-> "calculate", value |-> calculateArbitrageReturn(input) ]
    /\ UNCHANGED <<input, hookVars, debounceVars>>

BreakEven ==
    /\ out = NoOutput
    /\ out' = [ op |-> "breakEven", value |-> calculateBreakEven(input) ]
    /\ UNCHANGED <<input, hookVars, debounceVars>>

\* the break-even futures price fed back in as futurePrice
BreakEvenFedBack ==
    /\ out = NoOutput
    /\ HoldingPeriodError(HoldingDays(input)) = None
    /\ out' = [ op |-> "fedBack",
                value |-> calculateArbitrageReturn(
                    [input EXCEPT !.futurePrice =
                        calculateBreakEven(input).breakEvenFuturePrice]) ]
    /\ UNCHANGED <<input, hookVars, debounceVars>>

Sensitivity ==
    /\ out = NoOutput
    /\ out' = [ op |-> "sensitivity", value |-> calculateSensitivity(input) ]
    /\ UNCHANGED <<input, hookVars, debounceVars>>

MarketCondition ==
    /\ out = NoOutput
    /\ out' = [ op |-> "marketCondition",
                value |-> getMarketCondition(input.futurePrice, input.spotPrice) ]
    /\ UNCHANGED <<input, hookVars, debounceVars>>

Validate ==
    /\ out = NoOutput
    /\ out' = [ op |-> "validateInput", value |-> validateInput(input) ]
    /\ UNCHANGED <<input, hookVars, debounceVars>>

CalcNext ==
    \/ Calculate
    \/ BreakEven
    \/ BreakEvenFedBack
    \/ Sensitivity
    \/ MarketCondition
    \/ Validate

CalcSpec == CalcInit /\ [][CalcNext]_vars

(***************************************************************************)
(* useCalculation: the orchestration hook, with the form's button guards   *)
(***************************************************************************)
FillRequiredMsg == <<"form", "fillRequired">>

isValidForCalculationOf(form) ==
    calculationInputOf(form) # None /\ validateCompleteForm(form).isValid

\* Object.values(formData).some(value => value !== '')
hasAnyDataOf(form) ==
    \E f \in DOMAIN form : f \in BooleanFields \/ form[f] # None

\* the auto-calculate effect run on a render with these values: the
\* calculationInput its new 500 ms timer holds, None when it sets no timer
autoTimerFor(ci, isValid, isLoading, calculatedOnce, ref) ==
    IF isValid /\ ~isLoading /\ ci # None /\ calculatedOnce /\ ci # ref
    THEN ci
    ELSE None

autoTimerAfter(form, isLoading, calculatedOnce, ref) ==
    autoTimerFor(calculationInputOf(form), isValidForCalculationOf(form),
                 isLoading, calculatedOnce, ref)

\* the warnings calculate() derives from a result
resultWarnings(calculationResult, marketCondition) ==
    Msg(gt(absD(calculationResult.annualizedReturn), D(30)),
        <<"result", "returnTooHigh">>)
    \o Msg(calculationResult.holdingDays < 7, <<"result", "shortHolding">>)
    \o Msg(gt(absD(marketCondition.premiumPercent), D(10)),
           <<"result", "wideSpread">>)

\* calculate() up to its await, for the calculationInput the closure holds
CalculateCall(ci) ==
    IF ci = None
    THEN /\ errors' = <<FillRequiredMsg>>
         /\ UNCHANGED <<result, analysisResult, warnings, loading,
                        hasCalculatedOnce, inFlight>>
    ELSE /\ hasCalculatedOnce' = TRUE
         /\ warnings' = <<>>
         /\ IF validateInput(ci) # <<>>
            THEN /\ errors' = validateInput(ci)
                 /\ result' = None
                 /\ analysisResult' = None
                 /\ loading' = FALSE
                 /\ UNCHANGED inFlight
            ELSE /\ errors' = <<>>
                 /\ loading' = TRUE
                 /\ inFlight' = inFlight \cup {ci}
                 /\ UNCHANGED <<result, analysisResult>>

\* the effects after a calculate() call: both depend on hasCalculatedOnce, the
\* auto-calculate effect on loading too
EffectsAfterCall(firedTimer) ==
    /\ autoTimer' =
           IF loading' # loading \/ hasCalculatedOnce' # hasCalculatedOnce
           THEN autoTimerAfter(formData, loading', hasCalculatedOnce',
                               lastCalculationInputRef')
           ELSE IF firedTimer THEN None ELSE autoTimer
    /\ debouncePending' =
           IF hasCalculatedOnce' # hasCalculatedOnce
           THEN hasAnyDataOf(formData)
           ELSE debouncePending
    /\ UNCHANGED debounceStale

\* the button: disabled unless isValidForCalculation, inert while loading
ManualCalculate ==
    /\ isValidForCalculationOf(formData)
    /\ ~loading
    /\ CalculateCall(calculationInputOf(formData))
    /\ UNCHANGED <<formData, lastCalculationInputRef>>
    /\ EffectsAfterCall(FALSE)
    /\ UNCHANGED <<engineVars, debounceVars>>

\* the 500 ms timer of the auto-calculate effect
AutoTimerFire ==
    /\ autoTimer # None
    /\ lastCalculationInputRef' = autoTimer
    /\ CalculateCall(autoTimer)
    /\ UNCHANGED formData
    /\ EffectsAfterCall(TRUE)
    /\ UNCHANGED <<engineVars, debounceVars>>

\* what calculate() sets after its await, from what the engine returned: the
\* catch block undoes setResult when a later call throws
outcomeOf(calculationResult, breakEven, sensitivity, marketCondition) ==
    IF ~calculationResult.ok
    THEN [ ok |-> FALSE, error |-> calculationResult.error ]
    ELSE IF ~sensitivity.ok
    THEN [ ok |-> FALSE, error |-> sensitivity.error ]
    ELSE [ ok             |-> TRUE,
           result         |-> calculationResult,
           analysisResult |->
               [ result          |-> calculationResult,
                 breakEven       |-> breakEven,
                 sensitivity     |-> sensitivity,
                 marketCondition |-> marketCondition ],
           warnings       |-> resultWarnings(calculationResult, marketCondition) ]

calculationOutcome(ci) ==
    outcomeOf(calculateArbitrageReturn(ci), calculateBreakEven(ci),
              calculateSensitivity(ci),
              getMarketCondition(ci.futurePrice, ci.spotPrice))

ApplyOutcome_CatchKeepsAnalysis(o) ==
    IF o.ok
    THEN /\ result' = o.result
         /\ analysisResult' = o.analysisResult
         /\ warnings' = o.warnings
         /\ UNCHANGED errors
    ELSE /\ errors' = <<o.error>>
         /\ result' = None
         /\ UNCHANGED <<analysisResult, warnings>>

ApplyOutcome(o) ==
    IF o.ok
    THEN /\ result' = o.result
         /\ analysisResult' = o.analysisResult
         /\ warnings' = o.warnings
         /\ UNCHANGED errors
    ELSE /\ errors' = <<o.error>>
         /\ result' = None
         /\ analysisResult' = None
         /\ UNCHANGED warnings

\* calculate() from its await on, for one call in flight
CalcResume ==
    \E ci \in inFlight :
        /\ inFlight' = inFlight \ {ci}
        /\ ApplyOutcome(calculationOutcome(ci))
        /\ loading' = FALSE
        /\ autoTimer' =
               IF loading
               THEN autoTimerAfter(formData, FALSE, hasCalculatedOnce,
                                   lastCalculationInputRef)
               ELSE autoTimer
        /\ UNCHANGED <<formData, hasCalculatedOnce, lastCalculationInputRef,
                       debouncePending, debounceStale>>
        /\ UNCHANGED <<engineVars, debounceVars>>

\* the fields and values the user's edits are drawn from
EditedFields == { "maturityDate" }

\* maturity dates 0, 1, 30, 91 and 366 days after Today
EditValues(field) ==
    CASE field = "maturityDate" ->
        { Today, <<2024, 1, 2>>, <<2024, 1, 31>>, <<2024, 4, 1>>, <<2025, 1, 1>> }

\* updateField(field, value), and the effects of the render that follows
UpdateField ==
    \E field \in EditedFields :
        \E value \in EditValues(field) :
            /\ formData[field] # value
            /\ formData' = [formData EXCEPT ![field] = value]
            /\ autoTimer' = autoTimerAfter(formData', loading, hasCalculatedOnce,
                                           lastCalculationInputRef)
            /\ debouncePending' = hasAnyDataOf(formData')
            /\ UNCHANGED <<result, analysisResult, errors, warnings, loading,
                           hasCalculatedOnce, lastCalculationInputRef, inFlight,
                           debounceStale>>
            /\ UNCHANGED <<engineVars, debounceVars>>

LoadExample ==
    /\ formData' = ExampleForm
    /\ autoTimer' = autoTimerAfter(formData', loading, hasCalculatedOnce,
                                   lastCalculationInputRef)
    /\ debouncePending' = hasAnyDataOf(formData')
    /\ UNCHANGED <<result, analysisResult, errors, warnings, loading,
                   hasCalculatedOnce, lastCalculationInputRef, inFlight,
                   debounceStale>>
    /\ UNCHANGED <<engineVars, debounceVars>>

\* how many timers of replaced debouncedValidation functions may be pending at
\* once (each lives 300 ms)
MaxStaleTimers == 1

\* reset(): a debouncedValidation created with hasCalculatedOnce true is
\* replaced, its pending timer left running with the form it was called with
Reset ==
    /\ (hasCalculatedOnce /\ debouncePending /\ formData \notin debounceStale)
           => Cardinality(debounceStale) < MaxStaleTimers
    /\ formData' = EmptyForm
    /\ result' = None
    /\ analysisResult' = None
    /\ errors' = <<>>
    /\ warnings' = <<>>
    /\ hasCalculatedOnce' = FALSE
    /\ lastCalculationInputRef' = None
    /\ autoTimer' = autoTimerAfter(formData', loading, FALSE, None)
    /\ debounceStale' =
           IF hasCalculatedOnce /\ debouncePending
           THEN debounceStale \cup {formData}
           ELSE debounceStale
    /\ debouncePending' = hasAnyDataOf(formData')
    /\ UNCHANGED <<loading, inFlight>>
    /\ UNCHANGED <<engineVars, debounceVars>>

\* setErrors(validation.errors), setWarnings(validation.warnings)
ShowValidation(validation) ==
    /\ errors' = validation.errors
    /\ warnings' = validation.warnings

\* the 300 ms timer of the current debouncedValidation
DebounceFire ==
    /\ debouncePending
    /\ debouncePending' = FALSE
    /\ IF hasCalculatedOnce
       THEN ShowValidation(validateCompleteForm(formData))
       ELSE UNCHANGED <<errors, warnings>>
    /\ UNCHANGED <<formData, result, analysisResult, loading, hasCalculatedOnce,
                   lastCalculationInputRef, autoTimer, inFlight, debounceStale>>
    /\ UNCHANGED <<engineVars, debounceVars>>

\* the timer of a replaced debouncedValidation
StaleDebounceFire ==
    \E data \in debounceStale :
        /\ debounceStale' = debounceStale \ {data}
        /\ ShowValidation(validateCompleteForm(data))
        /\ UNCHANGED <<formData, result, analysisResult, loading,
                       hasCalculatedOnce, lastCalculationInputRef, autoTimer,
                       inFlight, debouncePending>>
        /\ UNCHANGED <<engineVars, debounceVars>>

Init ==
    /\ HookInit
    /\ input = None
    /\ out = NoOutput
    /\ DebounceUnused

Next ==
    \/ UpdateField
    \/ LoadExample
    \/ Reset
    \/ ManualCalculate
    \/ AutoTimerFire
    \/ CalcResume
    \/ DebounceFire
    \/ StaleDebounceFire

Spec == Init /\ [][Next]_vars

\* The steps of the four timer callbacks, each told by the one variable it
\* alone changes this way: only AutoTimerFire moves the pending input into the
\* ref, only CalcResume and StaleDebounceFire take an element out of their
\* sets, only DebounceFire turns debouncePending off.
AutoTimerStep == autoTimer # None /\ lastCalculationInputRef' = autoTimer

CalcResumeStep == \E ci \in inFlight : inFlight' = inFlight \ {ci}

DebounceStep == debouncePending /\ debouncePending' = FALSE

StaleDebounceStep == \E data \in debounceStale : debounceStale' = debounceStale \ {data}

\* the hook with its timers firing: a pending setTimeout callback runs, and a
\* calculate() call in its delay resumes
LiveSpec ==
    /\ Init
    /\ [][Next]_vars
    /\ WF_lastCalculationInputRef(AutoTimerStep)
    /\ WF_inFlight(CalcResumeStep)
    /\ WF_debouncePending(DebounceStep)
    /\ WF_debounceStale(StaleDebounceStep)

(***************************************************************************)
(* The two validation gates applied to bounded forms                       *)
(***************************************************************************)
\* texts of investmentAmount: '', 500, 100000, 20000000
AmountTexts == { None, <<500, 0>>, <<100000, 0>>, <<20000000, 0>> }

\* texts of futurePrice: '', 3050, 5000, -1
FuturePriceTexts == { None, <<3050, 0>>, <<5000, 0>>, <<-1, 0>> }

SpotPriceTexts == { None, <<3000, 0>> }

CurrentDates == { None, Today }

\* maturity dates '', and 0, 91 and 366 days after Today
MaturityDates == { None, Today, <<2024, 4, 1>>, <<2025, 1, 1>> }

\* texts of annualInterestRate: '', 0, 12, 51
InterestTexts == { None, <<0, 0>>, <<12, 0>>, <<51, 0>> }

\* texts of transactionFeeRate: '', 0.05, 10, 15; with the interest rates the
\* sums annualInterestRate + 2 * transactionFeeRate include 30 and 32
FeeTexts == { None, <<5, 2>>, <<10, 0>>, <<15, 0>> }

\* <<both switches, depositLossRate, withdrawalLossRate, leverageRatio>>: off
\* and empty; on with 0.1, 0.1, 3; on with 150, -1, 0; on with 0.1, 0.1, -1
OptionTexts ==
    { <<FALSE, None, None, None>>,
      <<TRUE, <<1, 1>>, <<1, 1>>, <<3, 0>>>>,
      <<TRUE, <<150, 0>>, <<-1, 0>>, <<0, 0>>>>,
      <<TRUE, <<1, 1>>, <<1, 1>>, <<-1, 0>>>> }

Forms ==
    { [ investmentAmount            |-> a,
        futurePrice                 |-> f,
        spotPrice                   |-> s,
        currentDate                 |-> c,
        maturityDate                |-> m,
        annualInterestRate          |-> r,
        transactionFeeRate          |-> t,
        enableDepositWithdrawalLoss |-> o[1],
        enableLeverage              |-> o[1],
        depositLossRate             |-> o[2],
        withdrawalLossRate          |-> o[3],
        leverageRatio               |-> o[4] ] :
      a \in AmountTexts, f \in FuturePriceTexts, s \in SpotPriceTexts,
      c \in CurrentDates, m \in MaturityDates, r \in InterestTexts,
      t \in FeeTexts, o \in OptionTexts }

FormInit ==
    /\ formData \in Forms
    /\ input = None
    /\ out = NoOutput
    /\ result = None
    /\ analysisResult = None
    /\ errors = <<>>
    /\ warnings = <<>>
    /\ loading = FALSE
    /\ hasCalculatedOnce = FALSE
    /\ lastCalculationInputRef = None
    /\ autoTimer = None
    /\ inFlight = {}
    /\ debouncePending = TRUE
    /\ debounceStale = {}
    /\ DebounceUnused

\* formValidation: validateCompleteForm(formData)
ValidateForm ==
    /\ out = NoOutput
    /\ out' = [ op |-> "validateCompleteForm",
                value |-> validateCompleteForm(formData) ]
    /\ UNCHANGED <<input, hookVars, debounceVars>>

\* validateInput on the calculationInput the form converts to
ValidateConverted ==
    /\ out = NoOutput
    /\ calculationInputOf(formData) # None
    /\ input' = calculationInputOf(formData)
    /\ out' = [ op |-> "validateInput", value |-> validateInput(input') ]
    /\ UNCHANGED <<hookVars, debounceVars>>

\* the enabled button pressed: calculate() runs validateInput and, when that
\* returns no error, the calculator on the form's calculationInput
Submit ==
    /\ out = NoOutput
    /\ isValidForCalculationOf(formData)
    /\ input' = calculationInputOf(formData)
    /\ out' = IF validateInput(input') # <<>>
              THEN [ op |-> "rejected", value |-> validateInput(input') ]
              ELSE [ op |-> "calculated", value |-> calculateArbitrageReturn(input') ]
    /\ UNCHANGED <<hookVars, debounceVars>>

FormNext ==
    \/ ValidateForm
    \/ ValidateConverted
    \/ Submit

FormSpec == FormInit /\ [][FormNext]_vars

(***************************************************************************)
(* debounce(func, wait): the returned function, its timer and the clock    *)
(***************************************************************************)
\* the wait arguments, the number of calls and the clock's range
MaxWait == 2

MaxCalls == 3

MaxTime == 5

\* the arguments of a call
CallArgs == { "a", "b" }

\* clearTimeout(id): the timer of that id is set no longer; nothing happens
\* when it has run already
clearTimeout_Nothing(set, id) == set

clearTimeout(set, id) == { t \in set : t.id # id }

\* a timer runs when it is due, before anything else happens at that time
TimerDue == \E t \in timers : t.due <= now

\* the state after debounce(func, wait) has returned
DebounceInit ==
    /\ wait \in 1..MaxWait
    /\ timeout = 0
    /\ timers = {}
    /\ now = 0
    /\ calls = <<>>
    /\ invoked = <<>>
    /\ input = None
    /\ out = NoOutput
    /\ HookInit

\* the returned function called with args: clears the timer it set last and
\* sets a new one
DebouncedCall ==
    \E args \in CallArgs :
        /\ Len(calls) < MaxCalls
        /\ ~TimerDue
        /\ calls' = Append(calls, [ at |-> now, args |-> args ])
        /\ timeout' = Len(calls')
        /\ timers' =
               (IF timeout # 0 THEN clearTimeout(timers, timeout) ELSE timers)
               \cup { [ id |-> timeout', args |-> args, due |-> now + wait ] }
        /\ UNCHANGED <<wait, now, invoked>>
        /\ UNCHANGED <<engineVars, hookVars>>

\* the setTimeout callback: func(...args)
TimerRuns ==
    \E t \in timers :
        /\ t.due <= now
        /\ invoked' = Append(invoked, [ at |-> now, args |-> t.args ])
        /\ timers' = timers \ {t}
        /\ UNCHANGED <<wait, timeout, now, calls>>
        /\ UNCHANGED <<engineVars, hookVars>>

\* the clock
Tick ==
    /\ now < MaxTime
    /\ ~TimerDue
    /\ now' = now + 1
    /\ UNCHANGED <<wait, timeout, timers, calls, invoked>>
    /\ UNCHANGED <<engineVars, hookVars>>

DebounceNext ==
    \/ DebouncedCall
    \/ TimerRuns
    \/ Tick

DebounceSpec == DebounceInit /\ [][DebounceNext]_vars

(***************************************************************************)
(* Properties of the engine (checked under CalcSpec)                       *)
(***************************************************************************)
Calculated == out.op = "calculate"

Returned == Calculated /\ out.value.ok

\* what the Input Validator's data model calls a valid input
ValidInput(i) ==
    /\ validateInput(i) = <<>>
    /\ gt(i.investmentAmount, D(0))
    /\ i.leverageRatio # None => gt(i.leverageRatio, D(0))
    /\ i.depositLossRate # None =>
           gte(i.depositLossRate, D(0)) /\ lte(i.depositLossRate, D(100))
    /\ i.withdrawalLossRate # None =>
           gte(i.withdrawalLossRate, D(0)) /\ lte(i.withdrawalLossRate, D(100))

Rate(x) == IF x = None THEN D(0) ELSE x

\* the costs as the claims write them, over one common denominator
ClaimedCosts(i, days) ==
    dividedBy(
        plus(times(times(i.investmentAmount, i.annualInterestRate), D(days)),
             times(times(i.investmentAmount, D(365)),
                   plus(plus(times(D(2), i.transactionFeeRate),
                             Rate(i.depositLossRate)),
                        Rate(i.withdrawalLossRate)))),
        D(36500))

\* (futurePrice - spotPrice) * (notional / spotPrice)
ClaimedGross(i, notional) ==
    dividedBy(times(minus(i.futurePrice, i.spotPrice), notional), i.spotPrice)

\* C2: calculateArbitrageReturn fails exactly when the whole-day count from
\* currentDate to maturityDate is <= 0 or > 365, and otherwise returns a result
\* whose holdingDays is that day count.
C2_FailsExactlyOutsideHoldingRange ==
    Calculated =>
        /\ out.value.ok <=> (CalendarDays(input) >= 1 /\ CalendarDays(input) <= 365)
        /\ out.value.ok => out.value.holdingDays = CalendarDays(input)

C2_Witness ==
    /\ Returned
    /\ out.value.holdingDays = 365
    /\ input.currentDate[1] # input.maturityDate[1]

\* C3: without leverageRatio the result has no leverage record and actualProfit
\* is the unleveraged net profit: price difference on investmentAmount/spotPrice
\* units minus holding cost, round-trip fee and deposit/withdrawal losses.
C3_UnleveragedProfit ==
    (Returned /\ input.leverageRatio = None) =>
        /\ ~out.value.leverage.present
        /\ out.value.actualProfit =
               minus(ClaimedGross(input, input.investmentAmount),
                     ClaimedCosts(input, CalendarDays(input)))

C3_Witness ==
    /\ Returned
    /\ input.leverageRatio = None
    /\ input.depositLossRate # None
    /\ gt(input.transactionFeeRate, D(0))
    /\ gt(out.value.actualProfit, D(0))

\* C4: with leverageRatio > 0 the leverage record has contractValue =
\* investmentAmount * leverageRatio, marginRequired = investmentAmount and
\* leveragedProfit = price difference on the contract value minus the costs on
\* the unleveraged investmentAmount; actualProfit is leveragedProfit and
\* totalReturn, annualizedReturn and annualizedProfit derive from it.
C4_LeveragedProfit ==
    (Returned /\ input.leverageRatio # None /\ gt(input.leverageRatio, D(0))) =>
        LET v == out.value
            contract == times(input.investmentAmount, input.leverageRatio)
        IN  /\ v.leverage.present
            /\ v.leverage.contractValue = contract
            /\ v.leverage.marginRequired = input.investmentAmount
            /\ v.leverage.leveragedProfit =
                   minus(ClaimedGross(input, contract),
                         ClaimedCosts(input, CalendarDays(input)))
            /\ v.actualProfit = v.leverage.leveragedProfit
            /\ v.totalReturn =
                   dividedBy(times(v.actualProfit, D(100)), input.investmentAmount)
            /\ v.annualizedReturn =
                   dividedBy(times(v.totalReturn, D(365)), D(CalendarDays(input)))
            /\ v.annualizedProfit =
                   dividedBy(times(input.investmentAmount, v.annualizedReturn), D(100))

C4_Witness ==
    /\ Returned
    /\ input.leverageRatio = D(2)
    /\ gt(input.annualInterestRate, D(0))
    /\ input.depositLossRate # None
    /\ gt(out.value.actualProfit, D(0))

NoLossRate(x) == x = None \/ x = D(0)

C9_MarketCondition ==
    out.op = "marketCondition" =>
        LET v == out.value
            \* 200 * (futurePrice - spotPrice) against spotPrice
            scaled == times(D(200), minus(input.futurePrice, input.spotPrice))
        IN  /\ plus(v.premium, input.spotPrice) = input.futurePrice
            /\ times(v.premiumPercent, input.spotPrice) = times(D(100), v.premium)
            /\ v.condition = "CONTANGO" <=> gt(scaled, input.spotPrice)
            /\ v.condition = "BACKWARDATION" <=> lt(scaled, negated(input.spotPrice))
            /\ v.condition = "NEUTRAL" <=>
                   (lte(scaled, input.spotPrice) /\ gte(scaled, negated(input.spotPrice)))

C9_Witness ==
    /\ out.op = "marketCondition"
    /\ out.value.premiumPercent = Dec(1, 2)
    /\ out.value.condition = "NEUTRAL"

(***************************************************************************)
(* Properties of the hook (checked under Spec)                             *)
(***************************************************************************)
\* the four inputs calculate() hands to calculateArbitrageReturn, the last
\* three through calculateSensitivity
CalculatorCalls(ci) ==
    { ci, interestPerturbed(ci), timePerturbed(ci), pricePerturbed(ci) }

\* C1 (as claimed): every input that has passed validation and waits in
\* calculate()'s delay goes through the whole calculation flow without a
\* throw, and none of the flow's calculator calls has a holding period <= 0
\* or > 365.
C1_Claimed_ValidatedFlowCompletes ==
    \A ci \in inFlight :
        /\ validateInput(ci) = <<>>
        /\ calculationOutcome(ci).ok
        /\ \A c \in CalculatorCalls(ci) :
               HoldingPeriodError(HoldingDays(c)) = None

\* C7 (as claimed): a result calculate() applies after its delay is the one
\* computed from the input the form holds at that moment; the result of a
\* calculation the form has moved away from is never displayed.
C7_Claimed_StaleResultNeverApplied ==
    [][ (result' # result /\ result' # None) =>
            /\ calculationInputOf(formData') # None
            /\ result' = calculateArbitrageReturn(calculationInputOf(formData'))
      ]_vars

BothDates(r) == r.currentDate # None /\ r.maturityDate # None

\* maturityDate not strictly after currentDate, or the whole-day difference
\* outside [1, 365]
BadDates(r) ==
    \/ ~IsAfter(r.maturityDate, r.currentDate)
    \/ DiffDays(r.maturityDate, r.currentDate) < 1
    \/ DiffDays(r.maturityDate, r.currentDate) > 365

FormValidated == out.op = "validateCompleteForm"

InputValidated == out.op = "validateInput"

\* the messages of a list that are about one field
FieldErrors(list, field) == { i \in 1..Len(list) : list[i][1] = field }

\* C11 (as claimed): whenever transactionFeeRate is present and greater than
\* 10, validateCompleteForm reports an error for that field, whatever the
\* other fields hold, and so does validateInput.
C11_Claimed_FeeOver10IsFlagged ==
    /\ (FormValidated /\ formData.transactionFeeRate # None
           /\ gt(parseFloat(formData.transactionFeeRate), D(10)))
          => FieldErrors(out.value.errors, "transactionFeeRate") # {}
    /\ (InputValidated /\ gt(input.transactionFeeRate, D(10)))
          => FieldErrors(out.value, "transactionFeeRate") # {}

\* membership in a list of messages
Reports(list, m) == \E i \in 1..Len(list) : list[i] = m

\* annualInterestRate + 2 * transactionFeeRate > 30
CostRateOver30(interest, fee) == gt(plus(interest, times(fee, D(2))), D(30))

\* C12 (as claimed): with both rates present, validateCompleteForm reports the
\* 'total cost rate too high' error exactly when annualInterestRate +
\* 2 * transactionFeeRate > 30; validateInput reports it whenever the sum is
\* above 30; and no input with a sum above 30 is calculated.
C12_Claimed_CostRateOver30IsFlagged ==
    /\ (FormValidated /\ formData.annualInterestRate # None
           /\ formData.transactionFeeRate # None)
          => (Reports(out.value.errors, <<"rates", "costTooHigh">>)
                <=> CostRateOver30(parseFloat(formData.annualInterestRate),
                                   parseFloat(formData.transactionFeeRate)))
    /\ (InputValidated
           /\ CostRateOver30(input.annualInterestRate, input.transactionFeeRate))
          => Reports(out.value, <<"rates", "costTooHigh">>)
    /\ out.op = "calculated"
          => ~CostRateOver30(input.annualInterestRate, input.transactionFeeRate)

\* a loss rate outside [0, 100]
LossRateOutOfRange(x) == x # None /\ (lt(x, D(0)) \/ gt(x, D(100)))

\* a leverage ratio that is not above 0
LeverageOutOfRange(x) == x # None /\ lte(x, D(0))

\* the optional fields of a form or of an input that are present and violate
\* their bound
OptionalViolations(values) ==
    { f \in {"depositLossRate", "withdrawalLossRate"} :
        LossRateOutOfRange(values[f]) }
    \cup { f \in {"leverageRatio"} : LeverageOutOfRange(values[f]) }

\* C13 (as claimed): when an optional field is present and violates its bound,
\* validateCompleteForm reports an error for it and isValid is false,
\* validateInput returns an error, and no calculation runs with such a value.
C13_Claimed_OptionalBoundsAreChecked ==
    /\ FormValidated =>
          \A f \in OptionalViolations(
                      [ depositLossRate    |-> parseFloat(formData.depositLossRate),
                        withdrawalLossRate |-> parseFloat(formData.withdrawalLossRate),
                        leverageRatio      |-> parseFloat(formData.leverageRatio) ]) :
              /\ ~out.value.isValid
              /\ FieldErrors(out.value.errors, f) # {}
    /\ (InputValidated /\ OptionalViolations(input) # {}) => out.value # <<>>
    /\ out.op = "calculated" => OptionalViolations(input) = {}

\* C14 (as claimed): an investmentAmount above 0 that is below 1000 or above
\* 10,000,000 gets a warning and no error from validateCompleteForm, and the
\* form is valid when it is valid with an amount of 100000 in its place.
C14_Claimed_AnyPositiveAmountIsAccepted ==
    (/\ FormValidated
     /\ formData.investmentAmount # None
     /\ gt(parseFloat(formData.investmentAmount), D(0))
     /\ \/ lt(parseFloat(formData.investmentAmount), D(1000))
        \/ gt(parseFloat(formData.investmentAmount), D(10000000)))
    => /\ FieldErrors(out.value.errors, "investmentAmount") = {}
       /\ FieldErrors(out.value.warnings, "investmentAmount") # {}
       /\ validateCompleteForm(
              [formData EXCEPT !.investmentAmount = <<100000, 0>>]).isValid
            => out.value.isValid

\* the example form with the given fields taken from another form: every
\* other field is present and valid
Isolated(form, fields) ==
    [ f \in DOMAIN ExampleForm |->
        IF f \in fields THEN form[f] ELSE ExampleForm[f] ]

\* the errors validateCompleteForm gives the isolated form under a heading: a
\* field's name, or "dates", "prices", "rates" for the cross-field rules
IsolatedErrors(form, fields, heading) ==
    LET list == validateCompleteForm(Isolated(form, fields)).errors
    IN  { list[i] : i \in FieldErrors(list, heading) }

CrossFieldRules ==
    { <<"dates", {"currentDate", "maturityDate"}>>,
      <<"prices", {"futurePrice", "spotPrice"}>>,
      <<"rates", {"annualInterestRate", "transactionFeeRate"}>> }

\* C15: validateCompleteForm does not short-circuit.  Every error that a
\* required field's value earns on its own (the field missing, or violating
\* the rules validateCompleteForm applies to it) and every error that a pair
\* of fields earns under a cross-field rule is in the errors of the whole
\* form, whatever the other fields hold.
C15_NoShortCircuit ==
    FormValidated =>
        /\ \A i \in 1..Len(RequiredFields) :
               \A m \in IsolatedErrors(formData, {RequiredFields[i]},
                                       RequiredFields[i]) :
                   Reports(out.value.errors, m)
        /\ \A rule \in CrossFieldRules :
               \A m \in IsolatedErrors(formData, rule[2], rule[1]) :
                   Reports(out.value.errors, m)

\* a missing field, a field out of its range and a violated cross-field rule
\* in one form, all three reported
C15_Witness ==
    /\ FormValidated
    /\ formData.investmentAmount = None
    /\ formData.futurePrice = <<-1, 0>>
    /\ Reports(out.value.errors, FieldMsg("investmentAmount", "required"))
    /\ Reports(out.value.errors, FieldMsg("futurePrice", "positive"))
    /\ Reports(out.value.errors, <<"rates", "costTooHigh">>)
    /\ Reports(out.value.errors, Over365Msg)

ReadmeAnnualizedReturn(i, days) ==
    times(times(minus(minus(dividedBy(minus(i.futurePrice, i.spotPrice),
                                      i.spotPrice),
                            times(dividedBy(i.annualInterestRate, D(100)),
                                  Dec(days, 365))),
                      times(dividedBy(i.transactionFeeRate, D(100)), D(2))),
                Dec(365, days)),
          D(100))

\* C17: for a valid input without leverage and without deposit/withdrawal
\* loss, annualizedReturn is the value of the README's formula.
C17_ReadmeFormula ==
    (/\ Returned
     /\ ValidInput(input)
     /\ input.leverageRatio = None
     /\ NoLossRate(input.depositLossRate)
     /\ NoLossRate(input.withdrawalLossRate))
    => out.value.annualizedReturn =
           ReadmeAnnualizedReturn(input, CalendarDays(input))

\* an input with both rates above 0 and a return that is neither 0 nor the
\* bare price difference
C17_Witness ==
    /\ Returned
    /\ ValidInput(input)
    /\ input.leverageRatio = None
    /\ input.depositLossRate = None
    /\ input.withdrawalLossRate = None
    /\ gt(input.annualInterestRate, D(0))
    /\ gt(input.transactionFeeRate, D(0))
    /\ out.value.holdingDays = 91
    /\ gt(out.value.annualizedReturn, D(0))

\* the input with another investmentAmount and futurePrice
Resized(i, amount, future) ==
    [i EXCEPT !.investmentAmount = amount, !.futurePrice = future]

\* C18: for a valid input with leverageRatio > 0, liquidationPrice is the spot
\* price at which the loss on the leveraged spot quantity equals the margin:
\* (spotPrice - liquidationPrice) * (investmentAmount * leverageRatio /
\* spotPrice) = investmentAmount, i.e. spotPrice * (1 - 1 / leverageRatio), the
\* same for every investmentAmount and futurePrice.
C18_LiquidationPrice ==
    (Returned /\ ValidInput(input) /\ input.leverageRatio # None) =>
        /\ out.value.leverage.present
        /\ times(minus(input.spotPrice, out.value.leverage.liquidationPrice),
                 dividedBy(times(input.investmentAmount, input.leverageRatio),
                           input.spotPrice))
             = input.investmentAmount
        /\ out.value.leverage.liquidationPrice =
               times(input.spotPrice,
                     minus(D(1), dividedBy(D(1), input.leverageRatio)))
        /\ \A amount \in Amounts, future \in FuturePricesFor(input.spotPrice) :
               calculateArbitrageReturn(Resized(input, amount, future))
                   .leverage.liquidationPrice
               = out.value.leverage.liquidationPrice

\* leverage 2: liquidation at half the spot price, with futures above spot
C18_Witness ==
    /\ Returned
    /\ ValidInput(input)
    /\ input.leverageRatio = D(2)
    /\ gt(input.futurePrice, input.spotPrice)
    /\ out.value.leverage.liquidationPrice = dividedBy(input.spotPrice, D(2))

SensitivityReturned == out.op = "sensitivity" /\ out.value.ok

\* annualizedReturn of an input the calculator accepts
ReturnOf(i) == calculateArbitrageReturn(i).annualizedReturn

\* the day before a date, by the calendar's day numbers
DayBefore(date) ==
    CHOOSE d \in { <<y, m, n>> : y \in {date[1] - 1, date[1]}, m \in 1..12,
                                n \in 1..31 } :
        d[3] <= DaysInMonth(d[1], d[2]) /\ DayNumber(date) - DayNumber(d) = 1

\* C19: when calculateSensitivity returns, each of its three values is
\* annualizedReturn(perturbed input) - annualizedReturn(base input), the
\* perturbed input differing from the unperturbed input in one field only:
\* annualInterestRate + 1, maturityDate - 1 day, spotPrice * 1.01.  It returns
\* exactly when the calculator accepts the base input and the three perturbed
\* inputs.
C19_IndependentDeltas ==
    out.op = "sensitivity" =>
        LET interest == [input EXCEPT !.annualInterestRate = plus(@, D(1))]
            time     == [input EXCEPT !.maturityDate = DayBefore(@)]
            price    == [input EXCEPT !.spotPrice = times(@, Dec(101, 100))]
        IN  /\ out.value.ok <=>
                   \A i \in {input, interest, time, price} :
                       calculateArbitrageReturn(i).ok
            /\ out.value.ok =>
                   /\ out.value.interestRateSensitivity =
                          minus(ReturnOf(interest), ReturnOf(input))
                   /\ out.value.timeSensitivity =
                          minus(ReturnOf(time), ReturnOf(input))
                   /\ out.value.priceSensitivity =
                          minus(ReturnOf(price), ReturnOf(input))

\* an input with interest, fee, loss rates and leverage for which all three
\* values differ from 0
C19_Witness ==
    /\ SensitivityReturned
    /\ gt(input.annualInterestRate, D(0))
    /\ input.leverageRatio = D(2)
    /\ input.depositLossRate # None
    /\ out.value.interestRateSensitivity # D(0)
    /\ out.value.timeSensitivity # D(0)
    /\ out.value.priceSensitivity # D(0)

\* C20 (as claimed): for a valid input without leverage and deposit/withdrawal
\* loss, the breakEvenSpotPrice that calculateBreakEven returns, used as the
\* spot price with futurePrice, dates and rates unchanged, gives a net profit
\* of exactly zero.
C20_Claimed_SpotBreakEvenIsZeroProfit ==
    (/\ out.op = "breakEven"
     /\ ValidInput(input)
     /\ input.leverageRatio = None
     /\ NoLossRate(input.depositLossRate)
     /\ NoLossRate(input.withdrawalLossRate))
    => calculateArbitrageReturn(
           [input EXCEPT !.spotPrice = out.value.breakEvenSpotPrice]).actualProfit
       = D(0)

\* a non-negative decimal in hundredths, rounded half up as toFixed(2) shows it
Hundredths(x) == (200 * x[1] + x[2]) \div (2 * x[2])

\* the figures of scenario 2 that the claim and the code agree on
Scenario2Figures ==
    /\ out.value.ok
    /\ out.value.holdingDays = 91
    /\ out.value.leverage.present
    /\ out.value.leverage.contractValue = D(300000)
    /\ Hundredths(out.value.leverage.leveragedProfit) = 402740
    /\ out.value.actualProfit = out.value.leverage.leveragedProfit
    /\ out.value.riskLevel = "HIGH"

\* C21 (as claimed): for scenario 2 calculateArbitrageReturn returns
\* holdingDays 91, contractValue 300000, leveraged net profit 4027.40,
\* annualizedReturn 16.16 (two decimal places) and riskLevel HIGH.
C21_Claimed_Scenario2 ==
    (Calculated /\ input = Scenario2Input) =>
        /\ Scenario2Figures
        /\ Hundredths(out.value.annualizedReturn) = 1616

\* C21 (amended): the same figures, with annualizedReturn 16.15: it is
\* 4027.397... / 100000 * 365 / 91 * 100 = 16.1538...
C21_Scenario2 ==
    (Calculated /\ input = Scenario2Input) =>
        /\ Scenario2Figures
        /\ Hundredths(out.value.annualizedReturn) = 1615
        /\ out.value.annualizedReturn = Dec(210, 13)

C21_Witness == Returned /\ input = Scenario2Input

\* the factors investmentAmount is multiplied by
ScaleFactors == { Dec(1, 2), Dec(3, 7), D(2), D(3) }

Scaled(i, k) == [i EXCEPT !.investmentAmount = times(@, k)]

\* s is r with the amounts multiplied by k and the rates unchanged
ScaledBy(r, s, k) ==
    /\ s.ok
    /\ s.annualizedReturn = r.annualizedReturn
    /\ s.totalReturn = r.totalReturn
    /\ s.riskLevel = r.riskLevel
    /\ s.holdingDays = r.holdingDays
    /\ s.leverage.present = r.leverage.present
    /\ r.leverage.present =>
           /\ s.leverage.liquidationPrice = r.leverage.liquidationPrice
           /\ s.leverage.leverageRatio = r.leverage.leverageRatio
    /\ s.actualProfit = times(r.actualProfit, k)
    /\ s.annualizedProfit = times(r.annualizedProfit, k)
    /\ DOMAIN s.breakdown = DOMAIN r.breakdown
    /\ \A key \in DOMAIN r.breakdown : s.breakdown[key] = times(r.breakdown[key], k)

\* C29: for a valid input and a factor k > 0, investmentAmount multiplied by
\* k leaves annualizedReturn, totalReturn, riskLevel and liquidationPrice as
\* they are and multiplies actualProfit, annualizedProfit and every breakdown
\* amount by k.
C29_ScaleInvariant ==
    (Returned /\ ValidInput(input)) =>
        \A k \in ScaleFactors :
            ScaledBy(out.value, calculateArbitrageReturn(Scaled(input, k)), k)

\* a leveraged input with loss rates and a profit, tripled
C29_Witness ==
    /\ Returned
    /\ ValidInput(input)
    /\ input.leverageRatio = D(2)
    /\ input.depositLossRate # None
    /\ out.value.actualProfit # D(0)
    /\ calculateArbitrageReturn(Scaled(input, D(3))).actualProfit
           = times(out.value.actualProfit, D(3))
    /\ "depositLoss" \in DOMAIN out.value.breakdown

\* C30: whenever calculateSensitivity returns, interestRateSensitivity is
\* exactly -1, whatever the prices, dates, rates, amount and leverage.
C30_InterestSensitivityIsMinusOne ==
    SensitivityReturned => out.value.interestRateSensitivity = D(-1)

\* a leveraged input with loss rates and a non-zero fee
C30_Witness ==
    /\ SensitivityReturned
    /\ input.leverageRatio = D(2)
    /\ input.depositLossRate # None
    /\ gt(input.transactionFeeRate, D(0))
    /\ out.value.interestRateSensitivity = D(-1)

(***************************************************************************)
(* More properties of the validation gates (checked under FormSpec)        *)
(***************************************************************************)
\* C22 (as claimed): a form that validateCompleteForm finds valid and that
\* converts to a CalculationInput, so that the button is enabled, is never
\* rejected by validateInput inside calculate().
C22_Claimed_GatesAgree ==
    /\ out.op # "rejected"
    /\ (FormValidated /\ out.value.isValid /\ calculationInputOf(formData) # None)
          => validateInput(calculationInputOf(formData)) = <<>>

(***************************************************************************)
(* More properties of the hook (under Spec; liveness under LiveSpec)       *)
(***************************************************************************)
\* C23 (as claimed): after reset() result and analysisResult are null and
\* stay null until a new calculation is requested.  hasCalculatedOnce is
\* false exactly from a reset() (or the start) to the next calculate() call, so
\* the claim says both are null whenever it is false.
C23_Claimed_ResultStaysNullAfterReset ==
    ~hasCalculatedOnce => (result = None /\ analysisResult = None)

\* C24 (as claimed): an auto-calculate timer is pending only after the first
\* manual calculation, for the input of a valid form, and only when that
\* input differs from the one the last completed calculation displayed: with
\* the result of the form's input on display and the form unchanged, no
\* further calculate() run is scheduled.
C24_Claimed_AutoOnlyOnChange ==
    autoTimer # None =>
        /\ hasCalculatedOnce
        /\ isValidForCalculationOf(formData)
        /\ autoTimer = calculationInputOf(formData)
        /\ result # None => result # calculateArbitrageReturn(autoTimer)

\* the steps the hook takes by itself, the user doing nothing
TimerNext ==
    \/ AutoTimerFire
    \/ CalcResume
    \/ DebounceFire
    \/ StaleDebounceFire

\* the form passes validation and the user has calculated
Settling == hasCalculatedOnce /\ isValidForCalculationOf(formData)

\* the displayed result is the one computed from the form's input
Settled ==
    /\ ~loading
    /\ calculationInputOf(formData) # None
    /\ result = calculateArbitrageReturn(calculationInputOf(formData))

\* C25 (as claimed): once the user has calculated and the form is left
\* unchanged in a state that passes validation, the user doing nothing more,
\* then eventually, the timers firing, loading is false for good and the
\* displayed result is the one computed from the form's input.
C25_Claimed_AutoRecalculationSettles ==
    (<>[][TimerNext]_vars /\ <>[]Settling) => <>[]Settled

\* result and analysisResult are both null, or both set with the analysis
\* carrying the result
Paired ==
    IF result = None
    THEN analysisResult = None
    ELSE analysisResult # None /\ analysisResult.result = result

\* what the calculate() call for ci leaves when it ends
LeftBy(ci) ==
    IF calculationOutcome(ci).ok
    THEN /\ result' = calculateArbitrageReturn(ci)
         /\ analysisResult' = calculationOutcome(ci).analysisResult
    ELSE /\ result' = None
         /\ analysisResult' = None

\* a step leaves the two as they are, or sets both to null, or is the end of
\* a call and leaves what that call computed from its input
PairedStep ==
    \/ UNCHANGED <<result, analysisResult>>
    \/ result' = None /\ analysisResult' = None
    \/ \E ci \in inFlight : inFlight' = inFlight \ {ci} /\ LeftBy(ci)

C28_Claimed_UntouchedFormHasNoData ==
    formData = EmptyForm => (~hasAnyDataOf(formData) /\ ~debouncePending)

(***************************************************************************)
(* Properties of debounce (checked under DebounceSpec)                     *)
(***************************************************************************)
\* call i is the last of its burst: no call follows it less than wait later
LastOfBurst(i) == i = Len(calls) \/ calls[i + 1].at - calls[i].at >= wait

\* the timer of call i has run
Served(i) == LastOfBurst(i) /\ (i = Len(calls) => timers = {})

\* func's invocations as claimed: one for the last call of each burst, with
\* that call's arguments, wait after it
ClaimedInvocations ==
    LET served == SelectSeq([ i \in 1..Len(calls) |-> i ], Served)
    IN  [ k \in 1..Len(served) |->
            [ at |-> calls[served[k]].at + wait, args |-> calls[served[k]].args ] ]

====
